---- MODULE Spec2Model ----
(***************************************************************************)
(* Model of custom_components/custom-tplink/sensor.py: the two derivation  *)
(* functions, the setup pass that builds and registers the entity list,    *)
(* and the entities' native_value accessor.                                *)
(*                                                                         *)
(* Optional values: Python's None is the empty tuple, a present value v is *)
(* the 1-tuple <<v>>.  Float readings are fixed-point integers counted in  *)
(* units of 10^-Scale.                                                     *)
(***************************************************************************)
EXTENDS Integers, Sequences, FiniteSets, TLC

VARIABLES
    devices,   \* devices[0]: coordinator.device; devices[1..n]: parent.children
    pc,        \* position of async_setup_entry: "start" | "done" | "raised"
    added,     \* the argument of every async_add_entities call, in call order
    ret        \* the last derivation call or native_value access and its outcome

vars == <<devices, pc, added, ret>>

-----------------------------------------------------------------------------
(* Bounds *)

\* most children a strip has in the setup specification
MaxChildren == 2

\* most children a strip has in the specification with coordinator refreshes
MaxRefreshChildren == 1

\* decimal digits kept by the fixed-point model of float readings
Scale == 4

-----------------------------------------------------------------------------
(* Python values *)

None == <<>>

Some(v) == <<v>>

Return(v) == [kind |-> "return", value |-> v, exc |-> ""]

Raise(e) == [kind |-> "raise", value |-> None, exc |-> e]

RECURSIVE Pow10(_)
Pow10(n) == IF n <= 0 THEN 1 ELSE 10 * Pow10(n - 1)

\* n ten-thousandths as a fixed-point reading
Reading(n) == n * Pow10(Scale - 4)

\* round(number, ndigits) on a present number: the closest multiple of
\* 10^-ndigits, a tie going to the even multiple
RoundNumber(v, ndigits) ==
    LET q  == Pow10(Scale - ndigits)
        lo == (v \div q) * q
        r  == v - lo
    IN  IF 2 * r < q THEN lo
        ELSE IF 2 * r > q THEN lo + q
        ELSE IF (lo \div q) % 2 = 0 THEN lo ELSE lo + q

\* round(x, ndigits) on an optional: round(None, n) raises TypeError
round(x, ndigits) ==
    IF x = None THEN Raise("TypeError") ELSE Return(Some(RoundNumber(x[1], ndigits)))

\* getattr(obj, name) on a reading record that defines the attribute
getattr(obj, name) == obj[name]

-----------------------------------------------------------------------------
(* Descriptor catalogs *)

ENERGY_SENSORS == <<
    [catalog |-> "ENERGY_SENSORS", key |-> "current_power_w",
     name |-> "Current Consumption", emeter_attr |-> Some("power"), precision |-> 1],
    [catalog |-> "ENERGY_SENSORS", key |-> "total_energy_kwh",
     name |-> "Total Consumption", emeter_attr |-> Some("total"), precision |-> 3],
    [catalog |-> "ENERGY_SENSORS", key |-> "today_energy_kwh",
     name |-> "Today's Consumption", emeter_attr |-> None, precision |-> 3],
    [catalog |-> "ENERGY_SENSORS", key |-> "voltage",
     name |-> "Voltage", emeter_attr |-> Some("voltage"), precision |-> 1],
    [catalog |-> "ENERGY_SENSORS", key |-> "current_a",
     name |-> "Current", emeter_attr |-> Some("current"), precision |-> 2] >>

LUX_SENSORS == <<
    [catalog |-> "LUX_SENSORS", key |-> "current_power_w",
     name |-> "Light Lux", emeter_attr |-> Some("power"), precision |-> 1] >>

Range(s) == {s[i] : i \in DOMAIN s}

Descriptions == Range(ENERGY_SENSORS) \cup Range(LUX_SENSORS)

-----------------------------------------------------------------------------
(* Derivation functions *)

\* variant: the lux path reads the instantaneous field the descriptor names
async_luxmeter_reads_emeter(device, description) ==
    IF description.emeter_attr # None
    THEN LET valy == getattr(device.emeter_realtime, description.emeter_attr[1])
         IN  IF valy = None THEN Return(None)
             ELSE round(valy, description.precision)
    ELSE Return(None)

async_luxmeter_from_device(device, description) ==
    IF description.emeter_attr # None
    THEN LET valy == device.current_brightness
         IN  IF valy = None THEN Return(None)
             ELSE round(valy, description.precision)
    ELSE Return(None)

\* variant: today's energy defaults to 0.0 on bulbs too
async_emeter_zero_on_bulbs(device, description) ==
    IF description.emeter_attr # None
    THEN LET val == getattr(device.emeter_realtime, description.emeter_attr[1])
         IN  IF val = None THEN Return(None)
             ELSE round(val, description.precision)
    ELSE LET emeter_today == device.emeter_today
         IN  IF emeter_today # None
             THEN round(emeter_today, description.precision)
             ELSE Return(Some(0))

\* variant: the instantaneous field is rounded without the test for None
async_emeter_unchecked(device, description) ==
    IF description.emeter_attr # None
    THEN round(getattr(device.emeter_realtime, description.emeter_attr[1]),
               description.precision)
    ELSE LET emeter_today == device.emeter_today
         IN  IF emeter_today # None
             THEN round(emeter_today, description.precision)
             ELSE IF device.is_bulb THEN Return(None) ELSE Return(Some(0))

async_emeter_from_device(device, description) ==
    IF description.emeter_attr # None
    THEN LET val == getattr(device.emeter_realtime, description.emeter_attr[1])
         IN  IF val = None THEN Return(None)
             ELSE round(val, description.precision)
    ELSE LET emeter_today == device.emeter_today
         IN  IF emeter_today # None
             THEN round(emeter_today, description.precision)
             ELSE IF device.is_bulb THEN Return(None) ELSE Return(Some(0))

-----------------------------------------------------------------------------
(* Entities *)

\* legacy_device_id(device) of the package's __init__: the device identifier
\* the entity identity is built from
legacy_device_id(device) == device.device_id

\* SmartPlugSensor.__init__: the entity bound to handle h and a descriptor
SmartPlugSensor(h, description) ==
    [device             |-> h,
     entity_description |-> description,
     unique_id          |-> legacy_device_id(devices[h]) \o "_" \o description.key]

\* variant: a lux entity reads its value through the lux derivation
native_value_by_catalog(entity) ==
    IF entity.entity_description.catalog = "LUX_SENSORS"
    THEN async_luxmeter_from_device(devices[entity.device], entity.entity_description)
    ELSE async_emeter_from_device(devices[entity.device], entity.entity_description)

\* SmartPlugSensor.native_value
native_value(entity) ==
    async_emeter_from_device(devices[entity.device], entity.entity_description)

-----------------------------------------------------------------------------
(* async_setup_entry *)

\* the comprehension of lines 161-165 on handle h
async_sensors_for_device_lux(h) ==
    LET keep == SelectSeq(LUX_SENSORS,
                    LAMBDA d : async_luxmeter_from_device(devices[h], d).value # None)
    IN  [i \in 1..Len(keep) |-> SmartPlugSensor(h, keep[i])]

\* variant: the comprehension keeps a descriptor when its value is truthy
async_sensors_for_device_truthy(h) ==
    LET keep == SelectSeq(ENERGY_SENSORS,
                    LAMBDA d : async_emeter_from_device(devices[h], d).value
                                  \notin {None, Some(0)})
    IN  [i \in 1..Len(keep) |-> SmartPlugSensor(h, keep[i])]

\* the comprehension of lines 171-175 on handle h
async_sensors_for_device_emeter(h) ==
    LET keep == SelectSeq(ENERGY_SENSORS,
                    LAMBDA d : async_emeter_from_device(devices[h], d).value # None)
    IN  [i \in 1..Len(keep) |-> SmartPlugSensor(h, keep[i])]

\* the loop of lines 179-180 over the first k children
RECURSIVE ExtendChildren(_, _)
ExtendChildren(children, k) ==
    IF k = 0 THEN <<>>
    ELSE ExtendChildren(children, k - 1) \o async_sensors_for_device_emeter(children[k])

\* variant: the lux entities are built without the test of is_dimmable
SetupEntitiesLuxUnguarded ==
    LET parent == devices[0]
        lux    == async_sensors_for_device_lux(0)
        energy == IF parent.has_emeter
                  THEN IF parent.is_strip
                       THEN ExtendChildren(parent.children, Len(parent.children))
                       ELSE async_sensors_for_device_emeter(0)
                  ELSE <<>>
    IN  lux \o energy

\* variant: a strip gets the parent's energy entities besides its children's
SetupEntitiesStripParentToo ==
    LET parent == devices[0]
        lux    == IF parent.is_dimmable THEN async_sensors_for_device_lux(0) ELSE <<>>
        energy == IF parent.has_emeter
                  THEN IF parent.is_strip
                       THEN ExtendChildren(parent.children, Len(parent.children))
                               \o async_sensors_for_device_emeter(0)
                       ELSE async_sensors_for_device_emeter(0)
                  ELSE <<>>
    IN  lux \o energy

\* the list async_setup_entry has built when it reaches line 184
SetupEntities ==
    LET parent == devices[0]
        lux    == IF parent.is_dimmable THEN async_sensors_for_device_lux(0) ELSE <<>>
        energy == IF parent.has_emeter
                  THEN IF parent.is_strip
                       THEN ExtendChildren(parent.children, Len(parent.children))
                       ELSE async_sensors_for_device_emeter(0)
                  ELSE <<>>
    IN  lux \o energy

\* whether a derivation call made by the setup pass raises
SetupRaises ==
    LET parent == devices[0]
    IN  \/ /\ parent.is_dimmable
           /\ \E i \in DOMAIN LUX_SENSORS :
                 async_luxmeter_from_device(parent, LUX_SENSORS[i]).kind = "raise"
        \/ /\ parent.has_emeter
           /\ \E h \in (IF parent.is_strip THEN Range(parent.children) ELSE {0}) :
                 \E i \in DOMAIN ENERGY_SENSORS :
                    async_emeter_from_device(devices[h], ENERGY_SENSORS[i]).kind = "raise"

\* variant: an empty list is not registered
async_add_entities_unless_empty(entities) ==
    IF entities = <<>> THEN added ELSE Append(added, entities)

\* async_add_entities(entities), line 184
async_add_entities(entities) == Append(added, entities)

NoCall == [op |-> "none", device |-> 0, description |-> None, entity |-> 0,
           result |-> Return(None)]

async_setup_entry ==
    /\ pc = "start"
    /\ IF SetupRaises
       THEN pc' = "raised" /\ added' = added
       ELSE pc' = "done" /\ added' = async_add_entities(SetupEntities)
    /\ UNCHANGED <<devices, ret>>

-----------------------------------------------------------------------------
(* Reads of an entity's value, and direct calls of the derivation functions *)

NativeValueResult(i) == native_value(added[1][i])

NativeValue ==
    /\ pc = "done"
    /\ \E i \in 1..Len(added[1]) :
          ret' = [op |-> "native_value", device |-> added[1][i].device,
                  description |-> Some(added[1][i].entity_description),
                  entity |-> i, result |-> NativeValueResult(i)]
    /\ UNCHANGED <<devices, pc, added>>

CallEmeter ==
    /\ \E h \in DOMAIN devices, d \in Descriptions :
          ret' = [op |-> "async_emeter_from_device", device |-> h,
                  description |-> Some(d), entity |-> 0,
                  result |-> async_emeter_from_device(devices[h], d)]
    /\ UNCHANGED <<devices, pc, added>>

CallLuxmeter ==
    /\ \E h \in DOMAIN devices, d \in Descriptions :
          ret' = [op |-> "async_luxmeter_from_device", device |-> h,
                  description |-> Some(d), entity |-> 0,
                  result |-> async_luxmeter_from_device(devices[h], d)]
    /\ UNCHANGED <<devices, pc, added>>

-----------------------------------------------------------------------------
(* Device snapshots *)

EmeterAttrs == {"power", "total", "voltage", "current"}

Opt(S) == {None} \cup {Some(v) : v \in S}

\* readings whose roundings differ with the precision, a binary-exact tie
\* (0.125) and zero
RawReadings == {Reading(0), Reading(1250), Reading(123456)}

\* one present reading, where only presence matters
OneReading == {Reading(15000)}

AllAbsent == [a \in EmeterAttrs |-> None]

AllPresent == [a \in EmeterAttrs |-> Some(Reading(15000))]

PowerVoltage ==
    [a \in EmeterAttrs |-> IF a \in {"power", "voltage"} THEN Some(Reading(15000)) ELSE None]

TotalCurrent ==
    [a \in EmeterAttrs |-> IF a \in {"total", "current"} THEN Some(Reading(15000)) ELSE None]

\* instantaneous readings of the setup specification: every attribute is
\* present in one profile and absent in another, alone and together
RealtimeProfiles == {AllAbsent, AllPresent, PowerVoltage, TotalCurrent}

ChildRealtimeProfiles == {AllAbsent, AllPresent, PowerVoltage}

device_id(h) == "dev" \o ToString(h)

Snapshot(h, dim, em, strip, bulb, kids, rt, today, bright) ==
    [device_id |-> device_id(h), is_dimmable |-> dim, has_emeter |-> em,
     is_strip |-> strip, is_bulb |-> bulb, children |-> kids,
     emeter_realtime |-> rt, emeter_today |-> today, current_brightness |-> bright]

\* the top-level devices with n children
Parents(n, realtimes, values) ==
    {Snapshot(0, dim, em, strip, bulb, [i \in 1..n |-> i], rt, today, bright) :
        dim \in BOOLEAN, em \in BOOLEAN, strip \in BOOLEAN, bulb \in BOOLEAN,
        rt \in realtimes, today \in Opt(values), bright \in Opt(values)}

\* what a child reports: each child is a metering plug or bulb of its own
Kids(realtimes, values) == [bulb : BOOLEAN, rt : realtimes, today : Opt(values)]

\* the tree of parent p and the children kids[1..n]
Tree(p, kids) ==
    [h \in 0..Len(p.children) |->
        IF h = 0 THEN p
        ELSE Snapshot(h, FALSE, TRUE, FALSE, kids[h].bulb, <<>>,
                      kids[h].rt, kids[h].today, None)]

-----------------------------------------------------------------------------
(* The coordinator's refresh of one device's readings *)

Refresh ==
    /\ pc \in {"start", "done"}
    /\ \E h \in DOMAIN devices :
       \E rt \in {AllAbsent, AllPresent}, today \in Opt(OneReading),
          bright \in (IF h = 0 THEN Opt(OneReading) ELSE {None}) :
          devices' = [devices EXCEPT ![h].emeter_realtime = rt,
                                     ![h].emeter_today = today,
                                     ![h].current_brightness = bright]
    /\ ret' = NoCall
    /\ UNCHANGED <<pc, added>>

-----------------------------------------------------------------------------
(* Specifications *)

Start == pc = "start" /\ added = <<>> /\ ret = NoCall

\* setup, refreshes by the coordinator and reads of the entities' values
Init ==
    /\ \E n \in 0..MaxRefreshChildren :
       \E p \in Parents(n, {AllAbsent, AllPresent}, OneReading),
          kids \in [1..n -> Kids({AllAbsent, AllPresent}, OneReading)] :
          devices = Tree(p, kids)
    /\ Start

Next == async_setup_entry \/ Refresh \/ NativeValue

Spec == Init /\ [][Next]_vars

\* the setup pass alone, over every device tree of the bounds
InitSetup ==
    /\ \E n \in 0..MaxChildren :
       \E p \in Parents(n, RealtimeProfiles, OneReading),
          kids \in [1..n -> Kids(ChildRealtimeProfiles, OneReading)] :
          devices = Tree(p, kids)
    /\ Start

NextSetup == async_setup_entry

SpecSetup == InitSetup /\ [][NextSetup]_vars

\* the derivation functions alone, over every snapshot of one device
InitFn ==
    /\ \E bulb \in BOOLEAN, rt \in [EmeterAttrs -> Opt(RawReadings)],
          today \in Opt(RawReadings), bright \in Opt(RawReadings) :
          devices = [h \in {0} |->
                        Snapshot(0, FALSE, FALSE, FALSE, bulb, <<>>, rt, today, bright)]
    /\ Start

NextFn == CallEmeter \/ CallLuxmeter

SpecFn == InitFn /\ [][NextFn]_vars

-----------------------------------------------------------------------------
(* Vocabulary of the properties *)

Registered == IF Len(added) = 0 THEN <<>> ELSE added[1]

IsEnergy(e) == e.entity_description.catalog = "ENERGY_SENSORS"

IsLux(e) == e.entity_description.catalog = "LUX_SENSORS"

\* v rounded to ndigits: a multiple of 10^-ndigits no further than half a step from v
IsRounded(r, v, ndigits) ==
    LET q == Pow10(Scale - ndigits)
    IN  /\ r % q = 0
        /\ 2 * (r - v) <= q
        /\ 2 * (v - r) <= q

\* the reading a derivation call draws its value from
SourceReading(op, device, d) ==
    IF op = "async_luxmeter_from_device" THEN device.current_brightness
    ELSE IF d.emeter_attr # None THEN device.emeter_realtime[d.emeter_attr[1]]
    ELSE device.emeter_today

Called(op) == ret.op = op

RetDevice == devices[ret.device]

RetDescription == ret.description[1]

-----------------------------------------------------------------------------
(* C1: the unique identifiers (legacy device id, "_", descriptor key) of   *)
(* the entities passed to async_add_entities are pairwise distinct, for    *)
(* every device tree.                                                      *)
UniqueIdsDistinct ==
    pc = "done" =>
        \A i, j \in 1..Len(Registered) :
            i # j => Registered[i].unique_id # Registered[j].unique_id

-----------------------------------------------------------------------------
(* C2: async_emeter_from_device agrees with the reference: a descriptor    *)
(* with a source field gives absent when that field of the instantaneous   *)
(* reading is absent and the rounded field otherwise; today's energy gives *)
(* the rounded cumulative-today reading when present, absent when it is    *)
(* absent on a bulb, and exactly 0.0 when it is absent on a non-bulb.      *)
EmeterMatchesReference ==
    (Called("async_emeter_from_device") /\ RetDescription \in Range(ENERGY_SENSORS)) =>
        LET d     == RetDescription
            field == IF d.emeter_attr # None
                     THEN RetDevice.emeter_realtime[d.emeter_attr[1]]
                     ELSE RetDevice.emeter_today
            out   == ret.result
        IN  /\ out.kind = "return"
            /\ field # None =>
                  /\ out.value # None
                  /\ IsRounded(out.value[1], field[1], d.precision)
            /\ (field = None /\ d.emeter_attr # None) => out.value = None
            /\ (field = None /\ d.emeter_attr = None /\ RetDevice.is_bulb) =>
                  out.value = None
            /\ (field = None /\ d.emeter_attr = None /\ ~RetDevice.is_bulb) =>
                  out.value = Some(0)

\* today's energy was asked of a non-bulb that reports none, and 12.3456 was
\* read at the same time for the total
EmeterReferenceCases ==
    /\ Called("async_emeter_from_device")
    /\ RetDescription.key = "today_energy_kwh"
    /\ RetDevice.emeter_today = None
    /\ ~RetDevice.is_bulb
    /\ ret.result.value = Some(0)
    /\ RetDevice.emeter_realtime["total"] = Some(Reading(123456))

-----------------------------------------------------------------------------
(* C3: for every lux descriptor async_luxmeter_from_device returns absent  *)
(* when the brightness reading is absent and the brightness rounded to the *)
(* descriptor's precision otherwise, and no other reading of the device    *)
(* changes the result.                                                     *)
LuxmeterFollowsBrightnessOnly ==
    (Called("async_luxmeter_from_device") /\ RetDescription \in Range(LUX_SENSORS)) =>
        LET d      == RetDescription
            bright == RetDevice.current_brightness
            out    == ret.result
        IN  /\ out.kind = "return"
            /\ bright = None => out.value = None
            /\ bright # None =>
                  /\ out.value # None
                  /\ IsRounded(out.value[1], bright[1], d.precision)
            /\ \A a \in EmeterAttrs, v \in Opt(RawReadings) :
                  async_luxmeter_from_device(
                      [RetDevice EXCEPT !.emeter_realtime[a] = v], d) = out
            /\ \A v \in Opt(RawReadings) :
                  async_luxmeter_from_device([RetDevice EXCEPT !.emeter_today = v], d) = out
            /\ \A b \in BOOLEAN :
                  async_luxmeter_from_device([RetDevice EXCEPT !.is_bulb = b], d) = out

\* the brightness 12.3456 was read as 12.3 while the device reports no power
LuxmeterReadsBrightness ==
    /\ Called("async_luxmeter_from_device")
    /\ RetDescription \in Range(LUX_SENSORS)
    /\ RetDevice.current_brightness = Some(Reading(123456))
    /\ RetDevice.emeter_realtime["power"] = None
    /\ ret.result.value = Some(Reading(123000))

-----------------------------------------------------------------------------
(* C6, as stated: neither derivation function ever raises, and every       *)
(* unavailable source reading yields the absent value.                     *)
UnavailableYieldsAbsent ==
    ret.op \in {"async_emeter_from_device", "async_luxmeter_from_device"} =>
        /\ ret.result.kind = "return"
        /\ SourceReading(ret.op, RetDevice, RetDescription) = None =>
              ret.result.value = None

(* C6, amended: neither derivation function ever raises; an unavailable    *)
(* source reading yields the absent value, except that an absent           *)
(* cumulative-today reading of a non-bulb device yields 0.0 from           *)
(* async_emeter_from_device.                                               *)
UnavailableNeverRaises ==
    ret.op \in {"async_emeter_from_device", "async_luxmeter_from_device"} =>
        /\ ret.result.kind = "return"
        /\ SourceReading(ret.op, RetDevice, RetDescription) = None =>
              ret.result.value =
                  IF /\ ret.op = "async_emeter_from_device"
                     /\ RetDescription.emeter_attr = None
                     /\ ~RetDevice.is_bulb
                  THEN Some(0) ELSE None

\* the voltage was asked of a device whose instantaneous reading has none
UnavailableFieldAsked ==
    /\ Called("async_emeter_from_device")
    /\ RetDescription.key = "voltage"
    /\ RetDevice.emeter_realtime["voltage"] = None
    /\ ret.result = Return(None)

-----------------------------------------------------------------------------
(* C4: the registered list holds no entity of a lux descriptor when the    *)
(* top-level device is not dimmable, and no entity of an energy descriptor *)
(* when it lacks metering capability, whatever the readings and children.  *)
NoEntityWithoutCapability ==
    pc = "done" =>
        /\ ~devices[0].is_dimmable =>
              \A i \in 1..Len(Registered) : ~IsLux(Registered[i])
        /\ ~devices[0].has_emeter =>
              \A i \in 1..Len(Registered) : ~IsEnergy(Registered[i])

\* setup ran on a strip that is neither dimmable nor metering although it
\* reports a brightness and its two children report every reading
CapabilityAbsentReadingsPresent ==
    /\ pc = "done"
    /\ ~devices[0].is_dimmable /\ ~devices[0].has_emeter /\ devices[0].is_strip
    /\ devices[0].current_brightness # None
    /\ devices[0].emeter_realtime = AllPresent
    /\ Len(devices[0].children) = 2
    /\ \A h \in 1..2 : devices[h].emeter_realtime = AllPresent
    /\ Registered = <<>>

-----------------------------------------------------------------------------
(* C5: for a metering top-level device, a strip's energy entities are all  *)
(* bound to its children and none to the parent; a non-strip's energy      *)
(* entities are all bound to the top-level device and none to a child.     *)
EnergyEntitiesBinding ==
    (pc = "done" /\ devices[0].has_emeter) =>
        \A i \in 1..Len(Registered) :
            IsEnergy(Registered[i]) =>
                IF devices[0].is_strip
                THEN Registered[i].device \in Range(devices[0].children)
                     /\ Registered[i].device # 0
                ELSE Registered[i].device = 0

\* a metering strip whose parent reports every reading got energy entities
\* for both of its children
StripEntitiesOnChildren ==
    /\ pc = "done"
    /\ devices[0].has_emeter /\ devices[0].is_strip
    /\ devices[0].emeter_realtime = AllPresent
    /\ \A h \in 1..2 :
          \E i \in 1..Len(Registered) :
             IsEnergy(Registered[i]) /\ Registered[i].device = h

-----------------------------------------------------------------------------
(* C7: every registered entity, energy and lux alike, returns a non-absent *)
(* native_value when read right after setup on the unchanged snapshot.     *)
NativeValueUsableAfterSetup ==
    pc = "done" =>
        \A i \in 1..Len(Registered) : native_value(Registered[i]).value # None

-----------------------------------------------------------------------------
(* C8: for a metering device, each metered handle (each child of a strip,  *)
(* the top-level device otherwise) gets exactly one energy entity per      *)
(* energy descriptor whose async_emeter_from_device value is non-absent at *)
(* setup, in catalog order and none twice; a non-bulb metered handle       *)
(* always gets a today's-energy entity.                                    *)
MeteredHandles ==
    IF devices[0].is_strip THEN Range(devices[0].children) ELSE {0}

EnergyDescriptionsOf(h) ==
    LET mine == SelectSeq(Registered, LAMBDA e : IsEnergy(e) /\ e.device = h)
    IN  [i \in 1..Len(mine) |-> mine[i].entity_description]

AvailableEnergyDescriptions(h) ==
    SelectSeq(ENERGY_SENSORS,
        LAMBDA d : async_emeter_from_device(devices[h], d) # Return(None))

EnergyEntitiesPerHandle ==
    (pc = "done" /\ devices[0].has_emeter) =>
        \A h \in MeteredHandles :
            /\ EnergyDescriptionsOf(h) = AvailableEnergyDescriptions(h)
            /\ \A i, j \in 1..Len(EnergyDescriptionsOf(h)) :
                  i # j => EnergyDescriptionsOf(h)[i] # EnergyDescriptionsOf(h)[j]
            /\ ~devices[h].is_bulb =>
                  \E i \in 1..Len(EnergyDescriptionsOf(h)) :
                     EnergyDescriptionsOf(h)[i].key = "today_energy_kwh"

\* a non-bulb child that reports no reading got today's energy alone, and
\* its sibling got power and voltage around today's energy, in catalog order
PerHandleCases ==
    /\ pc = "done"
    /\ devices[0].has_emeter /\ devices[0].is_strip
    /\ Len(devices[0].children) = 2
    /\ ~devices[1].is_bulb /\ devices[1].emeter_realtime = AllAbsent
    /\ devices[1].emeter_today = None
    /\ Len(EnergyDescriptionsOf(1)) = 1
    /\ EnergyDescriptionsOf(1)[1].key = "today_energy_kwh"
    /\ Len(EnergyDescriptionsOf(2)) = 3
    /\ EnergyDescriptionsOf(2)[1].key = "current_power_w"
    /\ EnergyDescriptionsOf(2)[2].key = "today_energy_kwh"
    /\ EnergyDescriptionsOf(2)[3].key = "voltage"

-----------------------------------------------------------------------------
(* C9: an entity caches nothing: after any refreshes, every access of      *)
(* native_value returns async_emeter_from_device of the bound device's     *)
(* snapshot as it stands at the access, and the access changes neither     *)
(* the snapshot nor the entity.                                            *)
NativeValueRereadsSnapshot ==
    [][(ret' # ret /\ ret'.op = "native_value") =>
          LET entity == Registered[ret'.entity]
          IN  /\ ret'.result =
                    async_emeter_from_device(devices[entity.device],
                                             entity.entity_description)
              /\ devices' = devices
              /\ added' = added]_vars

\* an energy entity, registered because its reading was present at setup,
\* was read as absent after a refresh took the reading away
ReadAfterRefresh ==
    /\ ret.op = "native_value"
    /\ IsEnergy(Registered[ret.entity])
    /\ Registered[ret.entity].entity_description.key = "voltage"
    /\ devices[ret.device].emeter_realtime["voltage"] = None
    /\ ret.result = Return(None)

-----------------------------------------------------------------------------
(* C10: async_setup_entry calls async_add_entities exactly once, also with *)
(* an empty list, and afterwards no refresh or access adds or removes an   *)
(* entity: a metric absent at setup is not registered later, even once the *)
(* device reports it.                                                      *)
RegisteredOnceAndFixed ==
    /\ [](pc = "start" => Len(added) = 0)
    /\ [](pc = "done" => Len(added) = 1)
    /\ [][pc = "done" => (pc' = "done" /\ added' = added)]_vars

\* after setup a metering plug reports a voltage for which no entity exists
LateMetricUnregistered ==
    /\ pc = "done"
    /\ devices[0].has_emeter /\ ~devices[0].is_strip
    /\ devices[0].emeter_realtime["voltage"] # None
    /\ \A i \in 1..Len(Registered) :
          Registered[i].entity_description.key # "voltage"

====
